---- MODULE Spec2Model ----
(***************************************************************************)
(* Verification model of the list pages of the client application.         *)
(*                                                                         *)
(*  - UsersPage (pages/UserPage.tsx): infinite query + sentinel observer + *)
(*    e-mail filter + error view.                     specification Spec   *)
(*  - the row window of UsersPage (useVirtualizer with a fixed row size).  *)
(*                                                    specification SpecWindow *)
(*  - the keyed page query of TestProductsPage / Products (useQuery).      *)
(*                                                    specification SpecQuery  *)
(*  - the client-side filter of Products.             specification SpecFilter *)
(*  - useDebounce with time in ticks.                 specification SpecDebounce *)
(*  - the URL as written by the sync effects and read at mount.             *)
(*                                                    specification SpecLocation *)
(*  - Products, TestProductsPage, TestPage and Reviews with their search    *)
(*    box, debounced term, page number and session history.                 *)
(*                                                    specification SpecUrl  *)
(*  - updateSearchParams of SomePage.                 specification SpecParams *)
(*  - UsersPage with the life of its IntersectionObserver, under fairness.  *)
(*                                                    specification SpecObserver *)
(*  - the page number lists (getVisiblePages, getPageNumbers).              *)
(*                                                    specification SpecPager  *)
(*                                                                         *)
(* The pages are React function components: a state change re-renders the *)
(* component and re-runs its effects before the next event is handled, so  *)
(* every callback below reads the values of the latest render.  What the   *)
(* pages delegate to the query and virtualizer hooks is modelled by what   *)
(* the hooks do for the options the page passes (default QueryClient).     *)
(***************************************************************************)
EXTENDS Integers, Sequences, FiniteSets, TLC

VARIABLES
    pages,          \* data.pages of the infinite query: the loaded page responses
    fetchPage,      \* page parameter of the fetch in progress, 0 when fetchStatus is idle
    failureCount,   \* failed attempts of the fetch in progress
    retryWait,      \* TRUE between a failed attempt and its automatic retry
    abandoned,      \* page |-> number of requests still on the wire whose fetch was cancelled
    isError,        \* the query is in status "error"
    emailQuery,     \* the search box of UsersPage
    lastStep,       \* the latest event handled: its kind and its argument
    scrollOffset,   \* row window: scroll offset known to the virtualizer
    viewportHeight, \* row window: height of the scroll element
    itemHeight,     \* row window: fixed row size (estimateSize)
    overscan,       \* row window: overscan option
    itemCount,      \* row window: count option (length of the filtered list)
    range,          \* row window: the half-open range of rendered rows
    qKey,           \* keyed query: the query key of the latest render
    qCache,         \* keyed query: key |-> the response held for that key
    qFetching,      \* keyed query: keys with a request in flight
    qLastResponse   \* keyed query: the latest response delivered and the key then rendered

usersVars == <<pages, fetchPage, failureCount, retryWait, abandoned, isError,
               emailQuery, lastStep>>
windowVars == <<scrollOffset, viewportHeight, itemHeight, overscan, itemCount, range>>
queryVars == <<qKey, qCache, qFetching, qLastResponse>>

VARIABLES
    fItems,         \* product filter: the products of the loaded page (allProducts)
    fTerm,          \* product filter: the term the list is filtered by
    fResult         \* product filter: the rendered list (filteredProducts)

VARIABLES
    value,          \* useDebounce: the value passed by the latest render
    debouncedValue, \* useDebounce: the value the hook returns
    timers,         \* useDebounce: the pending timeouts, oldest first
    sinceInput,     \* time since the value last changed, counted up to the delay
    burst,          \* the values of the inputs less than the delay apart, oldest first
    published       \* the values set by the timeouts since the burst began

VARIABLES
    lsComp,         \* location round trip: the page component that writes and reads
    lsState,        \* location round trip: the page number and term held in memory
    lsPrior,        \* location round trip: location.search before the write
    lsUrl,          \* location round trip: location.search
    lsRead,         \* location round trip: the page number and term read at mount
    lsPhase         \* location round trip: "state", "written" or "read"

VARIABLES
    comp,            \* URL-synced page: the component mounted
    history,         \* URL-synced page: location.search of each session history entry
    hIndex,          \* URL-synced page: the current history entry
    currentPage,     \* URL-synced page: currentPage (initialPage in TestProductsPage)
    searchQuery,     \* URL-synced page: the search box (searchQuery, globalFilter)
    debouncedSearch, \* URL-synced page: the debounced term
    timerPending,    \* URL-synced page: a useDebounce timeout is pending
    typed,           \* the value last typed into the search box, if any since mount or navigation
    windowScrollY,   \* URL-synced page: scroll position of the window, 0 at the top
    lastEvent        \* the latest event handled and the URL writes it caused

VARIABLES
    spUrl,          \* SomePage: location.search
    spLast,         \* SomePage: the latest updateSearchParams call and the URL before it
    pgData,         \* page number lists: the query of the current page has data
    pgTotal,        \* page number lists: the number of pages the data reports
    pgCurrent,      \* page number lists: the current page
    pgVisible,      \* page number lists: what getVisiblePages returns
    pgNumbers       \* page number lists: what getPageNumbers returns

VARIABLES
    sentinelVisible, \* users list: the sentinel intersects the viewport (with its margin)
    sentinelEntries  \* users list: entries queued for the callback of the current observer

filterVars == <<fItems, fTerm, fResult>>
debounceVars == <<value, debouncedValue, timers, sinceInput, burst, published>>
locationVars == <<lsComp, lsState, lsPrior, lsUrl, lsRead, lsPhase>>
urlVars == <<comp, history, hIndex, currentPage, searchQuery, debouncedSearch,
             timerPending, typed, windowScrollY, lastEvent>>
paramVars == <<spUrl, spLast>>
pagerVars == <<pgData, pgTotal, pgCurrent, pgVisible, pgNumbers>>
observerVars == <<sentinelVisible, sentinelEntries>>
extraVars == <<filterVars, debounceVars, locationVars, urlVars, paramVars, pagerVars, observerVars>>
vars == <<usersVars, windowVars, queryVars, extraVars>>

Min(a, b) == IF a <= b THEN a ELSE b
Max(a, b) == IF a >= b THEN a ELSE b

----------------------------------------------------------------------------
(* Strings are sequences of characters; the alphabet has two cased letters *)
(* and one caseless character.                                             *)

ToLowerChar(c) == CASE c = "A" -> "a" [] c = "B" -> "b" [] OTHER -> c

ToLowerCase(s) == [i \in 1..Len(s) |-> ToLowerChar(s[i])]

\* String.prototype.includes: t occurs in s as a contiguous substring.
Includes(s, t) ==
    \E i \in 0..(Len(s) - Len(t)) : \A j \in 1..Len(t) : s[i + j] = t[j]

\* The values typed into a search box: empty, a matching term, a term no e-mail contains.
SearchTerms == { <<>>, <<"a", "B">>, <<"z", "z">> }

----------------------------------------------------------------------------
(* UsersPage                                                               *)

PAGE_SIZE == 25
MAX_PAGE == 10
RETRY == 3
MaxEntries == 2
MaxAbandoned == 2

\* The e-mail addresses the user API serves, by position in the collection.
EmailTable == << <<"A", "b", "x">>, <<"b", "a">>, <<"x", "a", "b">>, <<"B", "B">>, <<"x">> >>

User(n) == [id |-> n, email |-> EmailTable[(n % Len(EmailTable)) + 1]]

\* fetchUsersPage: the page's users and the next page number (0 stands for undefined).
FetchUsersPage(page) ==
    [ users |-> [i \in 1..PAGE_SIZE |-> User((page - 1) * PAGE_SIZE + i)],
      nextPage |-> IF page < MAX_PAGE THEN page + 1 ELSE 0 ]

\* A next page parameter that falls back to the first page: last.nextPage || 1
GetNextPageParamMutWrap(last) == IF last.nextPage = 0 THEN 1 ELSE last.nextPage

\* getNextPageParam: (last) => last.nextPage
GetNextPageParam(last) == last.nextPage

\* The page parameter the next fetch uses: initialPageParam without data.
NextPageParam(ps) == IF ps = <<>> THEN 1 ELSE GetNextPageParam(ps[Len(ps)])

hasNextPage == pages # <<>> /\ NextPageParam(pages) # 0
isFetchingNextPage == fetchPage # 0 /\ pages # <<>>
isLoading == fetchPage # 0 /\ pages = <<>>

RECURSIVE Flatten(_)
Flatten(ps) == IF ps = <<>> THEN <<>> ELSE Flatten(SubSeq(ps, 1, Len(ps) - 1)) \o ps[Len(ps)].users

\* loadedUsers = (data?.pages ?? []).flatMap((p) => p.users)
loadedUsers == Flatten(pages)

Matches(u, q) == Includes(ToLowerCase(u.email), ToLowerCase(q))

\* filtered: the loaded users whose e-mail contains the query; all of them for "".
Filter(users, q) == IF q # <<>> THEN SelectSeq(users, LAMBDA u : Matches(u, q)) ELSE users

filtered == Filter(loadedUsers, emailQuery)

\* What the component returns: the error view alone, or the list over `filtered`.
RenderedUsers == IF isError THEN <<>> ELSE filtered

\* The sentinel and the viewport are mounted by the list view only.
ObserverAttached == ~isError

AbandonedTotal(ab) ==
    LET RECURSIVE Sum(_)
        Sum(p) == IF p = 0 THEN 0 ELSE ab[p] + Sum(p - 1)
    IN  Sum(MAX_PAGE)

\* Requests on the wire: the live one and the cancelled ones not yet answered.
Outstanding ==
    (IF fetchPage # 0 /\ ~retryWait THEN 1 ELSE 0) + AbandonedTotal(abandoned)

\* The guard of the observer callback, on one entry, with the render's values.
ShouldFetchMutSearch(isIntersecting, hasNext, fetchingNext, query) ==
    isIntersecting /\ hasNext /\ ~fetchingNext

ShouldFetch(isIntersecting, hasNext, fetchingNext, query) ==
    isIntersecting /\ hasNext /\ ~fetchingNext /\ query = <<>>

\* The fetch state of the query, as a record the callback's loop threads through.
FetchState == [page |-> fetchPage, failures |-> failureCount, wait |-> retryWait,
               ab |-> abandoned]

\* fetchNextPage(): a fetch in progress is cancelled (its request stays on the
\* wire, its answer is ignored) and the next page is requested; with no next
\* page parameter nothing is requested.
FetchNextPage(f, ps) ==
    LET param == NextPageParam(ps)
        ab1 == IF f.page # 0 /\ ~f.wait
               THEN [f.ab EXCEPT ![f.page] = @ + 1]
               ELSE f.ab
    IN  IF param = 0
        THEN [f EXCEPT !.page = 0, !.failures = 0, !.wait = FALSE, !.ab = ab1]
        ELSE [page |-> param, failures |-> 0, wait |-> FALSE, ab |-> ab1]

\* for (const entry of entries) if (...) fetchNextPage();
RECURSIVE RunEntries(_, _, _, _, _, _)
RunEntries(f, entries, ps, hasNext, fetchingNext, query) ==
    IF entries = <<>> THEN f
    ELSE RunEntries(IF ShouldFetch(Head(entries), hasNext, fetchingNext, query)
                    THEN FetchNextPage(f, ps) ELSE f,
                    Tail(entries), ps, hasNext, fetchingNext, query)

EntryBatches == UNION { [1..n -> BOOLEAN] : n \in 1..MaxEntries }

\* The IntersectionObserver callback, delivered a batch of entries of the sentinel.
ObserverCallback(entries) ==
    /\ ObserverAttached
    /\ LET f == RunEntries(FetchState, entries, pages, hasNextPage,
                           isFetchingNextPage, emailQuery)
       IN  /\ AbandonedTotal(f.ab) <= MaxAbandoned
           /\ fetchPage' = f.page
           /\ failureCount' = f.failures
           /\ retryWait' = f.wait
           /\ abandoned' = f.ab
    /\ lastStep' = [kind |-> "observer", arg |-> entries]
    /\ UNCHANGED <<pages, isError, emailQuery>>
    /\ UNCHANGED <<windowVars, queryVars, extraVars>>

\* A response reaches the query: the answer of the live fetch is appended,
\* the answer of a cancelled fetch is dropped.
OnResponseMutStale(ps, page, live) == Append(ps, page)

OnResponse(ps, page, live) == IF live THEN Append(ps, page) ELSE ps

FetchSuccess ==
    /\ fetchPage # 0 /\ ~retryWait
    /\ pages' = OnResponse(pages, FetchUsersPage(fetchPage), TRUE)
    /\ fetchPage' = 0
    /\ failureCount' = 0
    /\ lastStep' = [kind |-> "success", arg |-> fetchPage]
    /\ UNCHANGED <<retryWait, abandoned, isError, emailQuery>>
    /\ UNCHANGED <<windowVars, queryVars, extraVars>>

\* The request fails ("Failed to fetch users"): the default retryer waits and
\* tries again, RETRY times; the failure after that puts the query in error.
FetchFail ==
    /\ fetchPage # 0 /\ ~retryWait
    /\ IF failureCount < RETRY
       THEN /\ failureCount' = failureCount + 1
            /\ retryWait' = TRUE
            /\ UNCHANGED <<fetchPage, isError>>
       ELSE /\ failureCount' = 0
            /\ fetchPage' = 0
            /\ isError' = TRUE
            /\ UNCHANGED retryWait
    /\ lastStep' = [kind |-> "failure", arg |-> fetchPage]
    /\ UNCHANGED <<pages, abandoned, emailQuery>>
    /\ UNCHANGED <<windowVars, queryVars, extraVars>>

\* The retry delay has elapsed: the retryer calls the query function again.
RetryFire ==
    /\ fetchPage # 0 /\ retryWait
    /\ retryWait' = FALSE
    /\ lastStep' = [kind |-> "retry", arg |-> fetchPage]
    /\ UNCHANGED <<pages, fetchPage, failureCount, abandoned, isError, emailQuery>>
    /\ UNCHANGED <<windowVars, queryVars, extraVars>>

\* The answer (or failure) of a cancelled fetch arrives.
AbandonedResponse(p) ==
    /\ abandoned[p] > 0
    /\ abandoned' = [abandoned EXCEPT ![p] = @ - 1]
    /\ pages' = OnResponse(pages, FetchUsersPage(p), FALSE)
    /\ lastStep' = [kind |-> "dropped", arg |-> p]
    /\ UNCHANGED <<fetchPage, failureCount, retryWait, isError, emailQuery>>
    /\ UNCHANGED <<windowVars, queryVars, extraVars>>

\* onChange of the search box (rendered by the list view only).
SetEmailQuery(t) ==
    /\ ~isError
    /\ emailQuery' = t
    /\ lastStep' = [kind |-> "search", arg |-> t]
    /\ UNCHANGED <<pages, fetchPage, failureCount, retryWait, abandoned, isError>>
    /\ UNCHANGED <<windowVars, queryVars, extraVars>>

\* After mount: the query has requested the initial page.
UsersInit ==
    /\ pages = <<>>
    /\ fetchPage = 1
    /\ failureCount = 0
    /\ retryWait = FALSE
    /\ abandoned = [p \in 1..MAX_PAGE |-> 0]
    /\ isError = FALSE
    /\ emailQuery = <<>>
    /\ lastStep = [kind |-> "mount", arg |-> 1]

----------------------------------------------------------------------------
(* The row window of UsersPage: useVirtualizer over `filtered.length` rows  *)
(* of one fixed size, and getVirtualItems().  The virtualizer finds the     *)
(* first row whose start is at or before the scroll offset (never past the  *)
(* last row), extends to the row that reaches the end of the viewport, and  *)
(* widens both ends by the overscan.  The range is half-open: [start, end). *)

MaxItemHeight == 3
MaxOverscan == 2
MaxViewport == 5
MaxScroll == 10
MaxCount == 6

CeilDiv(a, b) == (a + b - 1) \div b

\* A start index that is not held to the last row.
ProjectMutNoClamp(offset, viewport, height, count, over) ==
    [ start |-> Max(0, (offset \div height) - over),
      end |-> Min(count, CeilDiv(offset + viewport, height) + over) ]

\* No windowing: every row is rendered.
ProjectMutAll(offset, viewport, height, count, over) == [start |-> 0, end |-> count]

Project(offset, viewport, height, count, over) ==
    IF count = 0 THEN [start |-> 0, end |-> 0]
    ELSE LET startIndex == Min(offset \div height, count - 1)
             endIndex == Min(count - 1,
                             Max(startIndex, CeilDiv(offset + viewport, height) - 1))
         IN  [ start |-> Max(startIndex - over, 0),
               end |-> Min(endIndex + over, count - 1) + 1 ]

\* The largest scroll offset the scroll element allows for its content.
MaxScrollTop == Max(0, itemCount * itemHeight - viewportHeight)

\* A scroll event: the virtualizer takes the element's offset and re-renders.
OnScroll(o) ==
    /\ o <= MaxScrollTop
    /\ scrollOffset' = o
    /\ range' = Project(o, viewportHeight, itemHeight, itemCount, overscan)
    /\ UNCHANGED <<viewportHeight, itemHeight, overscan, itemCount>>
    /\ UNCHANGED <<usersVars, queryVars, extraVars>>

\* The scroll element is resized.
OnResize(v) ==
    /\ viewportHeight' = v
    /\ range' = Project(scrollOffset, v, itemHeight, itemCount, overscan)
    /\ UNCHANGED <<scrollOffset, itemHeight, overscan, itemCount>>
    /\ UNCHANGED <<usersVars, queryVars, extraVars>>

\* A render with another count (a page was appended, the filter changed): the
\* virtualizer still holds the offset of the last scroll event.
SetCount(n) ==
    /\ itemCount' = n
    /\ range' = Project(scrollOffset, viewportHeight, itemHeight, n, overscan)
    /\ UNCHANGED <<scrollOffset, viewportHeight, itemHeight, overscan>>
    /\ UNCHANGED <<usersVars, queryVars, extraVars>>

WindowInit ==
    /\ itemHeight \in 1..MaxItemHeight
    /\ overscan \in 0..MaxOverscan
    /\ viewportHeight \in 1..MaxViewport
    /\ scrollOffset = 0
    /\ itemCount = 0
    /\ range = Project(0, viewportHeight, itemHeight, 0, overscan)

----------------------------------------------------------------------------
(* The page query of TestProductsPage (and of Products, whose key is the    *)
(* page alone): useQuery keeps one cache entry per query key; the component *)
(* is given the entry of the key of its latest render.                      *)

MaxQueryPage == 2

QueryTerms == { <<>>, <<"a", "B">> }

QueryKeys == [page : 1..MaxQueryPage, search : QueryTerms]

NoData == [page |-> 0, search |-> <<>>]

\* fetchProducts(page, search): the products of that page of that search.
FetchProducts(k) == [page |-> k.page, search |-> k.search]

\* The response of a fetch is stored under the key the fetch was started for.
SetQueryDataMutCurrent(cache, key, current, data) == [cache EXCEPT ![current] = data]

SetQueryData(cache, key, current, data) == [cache EXCEPT ![key] = data]

\* response: the data of the rendered key; products = response?.products || []
response == qCache[qKey]

\* A render with another query key (the URL page or the debounced search
\* changed): the key is fetched unless it holds fresh data or is being fetched.
SetQueryKey(k, stale) ==
    /\ k # qKey
    /\ qKey' = k
    /\ qFetching' = IF qCache[k] = NoData \/ stale THEN qFetching \cup {k} ELSE qFetching
    /\ UNCHANGED <<qCache, qLastResponse>>
    /\ UNCHANGED <<usersVars, windowVars, extraVars>>

QueryResponse(k) ==
    /\ k \in qFetching
    /\ qCache' = SetQueryData(qCache, k, qKey, FetchProducts(k))
    /\ qFetching' = qFetching \ {k}
    /\ qLastResponse' = IF k = qKey THEN "current" ELSE "stale"
    /\ UNCHANGED qKey
    /\ UNCHANGED <<usersVars, windowVars, extraVars>>

\* The fetch of a key fails for good: the entry keeps the data it had.
QueryFailure(k) ==
    /\ k \in qFetching
    /\ qFetching' = qFetching \ {k}
    /\ UNCHANGED <<qKey, qCache, qLastResponse>>
    /\ UNCHANGED <<usersVars, windowVars, extraVars>>

QueryInit ==
    /\ qKey \in QueryKeys
    /\ qCache = [k \in QueryKeys |-> NoData]
    /\ qFetching = {qKey}
    /\ qLastResponse = "none"

----------------------------------------------------------------------------
----------------------------------------------------------------------------
(* The client-side filter of Products (filteredProducts).                   *)

MaxItems == 3

\* The products the API serves: some match a term by name, some by category
\* or sku only, one by no field.
ProductTable ==
    << [id |-> 1, name |-> <<"A", "b">>, category |-> <<"x">>,      sku |-> <<"S", "1">>],
       [id |-> 2, name |-> <<"c">>,      category |-> <<"a", "B">>, sku |-> <<"S", "2">>],
       [id |-> 3, name |-> <<"c", "a">>, category |-> <<"x">>,      sku |-> <<"b", "a", "b">>],
       [id |-> 4, name |-> <<"x">>,      category |-> <<"b">>,      sku |-> <<"S", "4">>] >>

Catalogue == { ProductTable[i] : i \in 1..Len(ProductTable) }

\* The lists a page of products can hold.
ProductLists == UNION { [1..n -> Catalogue] : n \in 0..MaxItems }

\* The terms a list is filtered by.
FilterTerms == { <<>>, <<"a">>, <<"a", "B">>, <<"B", "a">>, <<"s">>, <<"z", "z">> }

\* A predicate that lowers the product's fields but not the term.
ProductMatchesMutCase(p, q) ==
    \/ Includes(ToLowerCase(p.name), q)
    \/ Includes(ToLowerCase(p.category), q)
    \/ Includes(ToLowerCase(p.sku), q)

\* The predicate of filteredProducts: name, category or sku contains the term.
ProductMatches(p, q) ==
    \/ Includes(ToLowerCase(p.name), ToLowerCase(q))
    \/ Includes(ToLowerCase(p.category), ToLowerCase(q))
    \/ Includes(ToLowerCase(p.sku), ToLowerCase(q))

\* A filter that shows nothing until a term is typed.
FilterProductsMutEmpty(items, q) ==
    IF q # <<>> THEN SelectSeq(items, LAMBDA p : ProductMatches(p, q)) ELSE <<>>

\* filteredProducts = debouncedSearch ? allProducts.filter(...) : allProducts
FilterProducts(items, q) ==
    IF q # <<>> THEN SelectSeq(items, LAMBDA p : ProductMatches(p, q)) ELSE items

\* The page of products arrives (data?.data).
LoadProducts(items) ==
    /\ fItems' = items
    /\ fResult' = FilterProducts(items, fTerm)
    /\ UNCHANGED fTerm
    /\ UNCHANGED <<usersVars, windowVars, queryVars, debounceVars, locationVars, urlVars, paramVars, pagerVars, observerVars>>

\* The debounced term changes and the component renders again.
SetDebouncedSearch(t) ==
    /\ fTerm' = t
    /\ fResult' = FilterProducts(fItems, t)
    /\ UNCHANGED fItems
    /\ UNCHANGED <<usersVars, windowVars, queryVars, debounceVars, locationVars, urlVars, paramVars, pagerVars, observerVars>>

FilterInit ==
    /\ fItems = <<>>
    /\ fTerm = <<>>
    /\ fResult = FilterProducts(fItems, fTerm)

----------------------------------------------------------------------------
(* useDebounce, with time counted in ticks.                                 *)

DelayTicks == 2
MaxBurst == 3

\* The values typed into a debounced search box.
DebounceTerms == { <<>>, <<"a">>, <<"a", "b">>, <<"a", "b", "c">> }

\* An effect cleanup that leaves the timeout running.
ClearTimeoutMutKeep(ts) == ts

\* The effect cleanup: clearTimeout(handler) cancels the one pending timeout.
ClearTimeout(ts) == <<>>

\* setTimeout(() => setDebouncedValue(value), delay)
SetTimeout(ts, v) == Append(ts, [value |-> v, left |-> DelayTicks])

\* A render with a changed value: the effect's cleanup runs, then the effect.
\* An input that comes once the delay has passed begins a new burst.
SetValue(v) ==
    /\ v # value
    /\ sinceInput = DelayTicks \/ Len(burst) < MaxBurst
    /\ value' = v
    /\ timers' = SetTimeout(ClearTimeout(timers), v)
    /\ sinceInput' = 0
    /\ burst' = IF sinceInput = DelayTicks THEN <<v>> ELSE Append(burst, v)
    /\ published' = IF sinceInput = DelayTicks THEN <<>> ELSE published
    /\ UNCHANGED debouncedValue
    /\ UNCHANGED <<usersVars, windowVars, queryVars, filterVars, locationVars, urlVars, paramVars, pagerVars, observerVars>>

\* One tick passes; the timeouts that come due run their callbacks in order.
Tick ==
    /\ timers # <<>> \/ sinceInput < DelayTicks
    /\ LET aged == [i \in 1..Len(timers) |-> [timers[i] EXCEPT !.left = @ - 1]]
           due == SelectSeq(aged, LAMBDA t : t.left = 0)
       IN  /\ timers' = SelectSeq(aged, LAMBDA t : t.left > 0)
           /\ debouncedValue' = IF due = <<>> THEN debouncedValue ELSE due[Len(due)].value
           /\ published' = published \o [i \in 1..Len(due) |-> due[i].value]
    /\ sinceInput' = Min(sinceInput + 1, DelayTicks)
    /\ UNCHANGED <<value, burst>>
    /\ UNCHANGED <<usersVars, windowVars, queryVars, filterVars, locationVars, urlVars, paramVars, pagerVars, observerVars>>

\* The first render: useState(value), and the effect arms the first timeout.
DebounceInit ==
    /\ value \in DebounceTerms
    /\ debouncedValue = value
    /\ timers = SetTimeout(<<>>, value)
    /\ sinceInput = 0
    /\ burst = <<>>
    /\ published = <<>>

----------------------------------------------------------------------------
(* The location store: query strings, URLSearchParams, parseInt, toString.  *)
(* A query string is a sequence of characters in which a parameter name     *)
(* ("page", "search") and a percent escape ("%26") count as one character.  *)

NaN == -1

Digits == <<"0", "1", "2", "3", "4", "5", "6", "7", "8", "9">>

IsDigit(c) == \E d \in 1..10 : Digits[d] = c

DigitValue(c) == (CHOOSE d \in 1..10 : Digits[d] = c) - 1

\* Number.prototype.toString
RECURSIVE NumberToString(_)
NumberToString(n) ==
    IF n = NaN THEN <<"N", "a", "N">>
    ELSE IF n < 10 THEN <<Digits[n + 1]>>
    ELSE NumberToString(n \div 10) \o <<Digits[(n % 10) + 1]>>

\* parseInt(s, 10): the number written by the leading digits, NaN without one.
ParseInt(s) ==
    LET RECURSIVE Lead(_)
        Lead(k) == IF k < Len(s) /\ IsDigit(s[k + 1]) THEN Lead(k + 1) ELSE k
        RECURSIVE Val(_)
        Val(k) == IF k = 0 THEN 0 ELSE 10 * Val(k - 1) + DigitValue(s[k])
    IN  IF Lead(0) = 0 THEN NaN ELSE Val(Lead(0))

\* a !== b on numbers: NaN differs from itself.
NumberDiffers(a, b) == a # b \/ a = NaN

\* The form-urlencoded serializer leaves letters and digits, writes a space
\* as "+" and escapes the characters that delimit parameters.
EncodeCharMutRaw(c) == c

EncodeChar(c) ==
    CASE c = " " -> "+"
      [] c = "&" -> "%26"
      [] c = "=" -> "%3D"
      [] c = "+" -> "%2B"
      [] OTHER -> c

DecodeChar(c) ==
    CASE c = "+" -> " "
      [] c = "%26" -> "&"
      [] c = "%3D" -> "="
      [] c = "%2B" -> "+"
      [] OTHER -> c

Encode(s) == [i \in 1..Len(s) |-> EncodeChar(s[i])]
Decode(s) == [i \in 1..Len(s) |-> DecodeChar(s[i])]

\* URLSearchParams is an ordered list of <<name, value>> pairs.
ParamsHas(params, name) == \E i \in 1..Len(params) : params[i][1] = name

\* get(name) || dflt
GetOr(params, name, dflt) ==
    IF ParamsHas(params, name)
    THEN LET v == params[CHOOSE i \in 1..Len(params) :
                        params[i][1] = name /\ \A j \in 1..(i - 1) : params[j][1] # name][2]
         IN  IF v # <<>> THEN v ELSE dflt
    ELSE dflt

ParamsDelete(params, name) == SelectSeq(params, LAMBDA p : p[1] # name)

\* set(name, v): the first pair of that name takes the value, the others go.
ParamsSet(params, name, v) ==
    IF ParamsHas(params, name)
    THEN LET first == CHOOSE i \in 1..Len(params) :
                         params[i][1] = name /\ \A j \in 1..(i - 1) : params[j][1] # name
         IN  SubSeq(params, 1, first - 1) \o << <<name, v>> >>
                \o ParamsDelete(SubSeq(params, first + 1, Len(params)), name)
    ELSE Append(params, <<name, v>>)

\* URLSearchParams.prototype.toString
RECURSIVE Serialize(_)
Serialize(params) ==
    IF params = <<>> THEN <<>>
    ELSE LET p == params[Len(params)]
             init == SubSeq(params, 1, Len(params) - 1)
         IN  (IF init = <<>> THEN <<>> ELSE Serialize(init) \o <<"&">>)
                \o <<p[1]>> \o <<"=">> \o Encode(p[2])

IndexOf(s, c) ==
    IF \E i \in 1..Len(s) : s[i] = c
    THEN CHOOSE i \in 1..Len(s) : s[i] = c /\ \A j \in 1..(i - 1) : s[j] # c
    ELSE 0

RECURSIVE Split(_, _)
Split(s, sep) ==
    IF IndexOf(s, sep) = 0 THEN <<s>>
    ELSE <<SubSeq(s, 1, IndexOf(s, sep) - 1)>> \o Split(SubSeq(s, IndexOf(s, sep) + 1, Len(s)), sep)

\* new URLSearchParams(string): a leading "?" is dropped, the string is cut at
\* "&", each piece at its first "=", and both halves are decoded.
ParseQuery(str) ==
    LET body == IF str # <<>> /\ str[1] = "?" THEN SubSeq(str, 2, Len(str)) ELSE str
        pieces == SelectSeq(Split(body, "&"), LAMBDA piece : piece # <<>>)
        Pair(piece) ==
            IF IndexOf(piece, "=") = 0 THEN <<piece[1], <<>>>>
            ELSE << piece[1], Decode(SubSeq(piece, IndexOf(piece, "=") + 1, Len(piece))) >>
    IN  [i \in 1..Len(pieces) |-> Pair(pieces[i])]

\* initialPage = parseInt(searchParams.get("page") || "1", 10)
InitialPage(search) == ParseInt(GetOr(ParseQuery(search), "page", <<"1">>))

\* initialSearch = searchParams.get("search") || ""
InitialSearch(search) == GetOr(ParseQuery(search), "search", <<>>)

----------------------------------------------------------------------------
(* Writing the in-memory page and term to the URL and reading them at mount *)
(* (Products and TestProductsPage).                                         *)

MaxPageNumber == 12

PageComponents == { "Products", "TestProductsPage" }

\* Terms with and without the characters the query string reserves.
UrlTerms == { <<>>, <<"a">>, <<"a", " ", "B">>, <<"a", "&", "b">> }

QueryStates == [page : 1..MaxPageNumber, term : UrlTerms]

\* params.set("page", ...); debouncedSearch ? params.set("search", ...) : params.delete("search")
PageAndSearch(pageText, term) ==
    LET withPage == ParamsSet(<<>>, "page", pageText)
    IN  IF term # <<>> THEN ParamsSet(withPage, "search", term)
        ELSE ParamsDelete(withPage, "search")

\* Products: newUrl = `?${params.toString()}` for currentPage and debouncedSearch.
ProductsNewUrl(page, term) ==
    <<"?">> \o Serialize(PageAndSearch(NumberToString(page), term))

\* newParams that keep the page of the URL under a new term.
TestNewParamsMutKeepPage(term, initialPage, initialSearch) ==
    PageAndSearch(NumberToString(initialPage), term)

\* TestProductsPage: newParams, with page 1 when debouncedSearch is not the URL's term.
TestNewParams(term, initialPage, initialSearch) ==
    PageAndSearch(IF term # initialSearch THEN <<"1">> ELSE NumberToString(initialPage), term)

\* setSearchParams(params) navigates to "?" + params.
SearchOf(params) == <<"?">> \o Serialize(params)

\* The URL sync effect of the component, run on the state held in memory.
WriteLocation ==
    /\ lsPhase = "state"
    /\ lsPhase' = "written"
    /\ lsUrl' =
         IF lsComp = "Products"
         THEN LET newUrl == ProductsNewUrl(lsState.page, lsState.term)
              IN  IF lsUrl # newUrl THEN newUrl ELSE lsUrl
         ELSE LET newParams == TestNewParams(lsState.term, InitialPage(lsUrl), InitialSearch(lsUrl))
              IN  IF Serialize(newParams) # Serialize(ParseQuery(lsUrl))
                  THEN SearchOf(newParams) ELSE lsUrl
    /\ UNCHANGED <<lsComp, lsState, lsPrior, lsRead>>
    /\ UNCHANGED <<usersVars, windowVars, queryVars, filterVars, debounceVars, urlVars, paramVars, pagerVars, observerVars>>

\* The component mounts on the written URL: initialPage and initialSearch.
ReadLocation ==
    /\ lsPhase = "written"
    /\ lsPhase' = "read"
    /\ lsRead' = [page |-> InitialPage(lsUrl), term |-> InitialSearch(lsUrl)]
    /\ UNCHANGED <<lsComp, lsState, lsPrior, lsUrl>>
    /\ UNCHANGED <<usersVars, windowVars, queryVars, filterVars, debounceVars, urlVars, paramVars, pagerVars, observerVars>>

\* A component holds page st.page and term st.term over a URL carrying the term t.
\* TestProductsPage keeps its page number in the URL alone.
HoldState(c, st, t) ==
    /\ lsPhase = "read"
    /\ lsPhase' = "state"
    /\ lsComp' = c
    /\ lsState' = st
    /\ lsPrior' = ProductsNewUrl(st.page, t)
    /\ lsUrl' = lsPrior'
    /\ UNCHANGED lsRead
    /\ UNCHANGED <<usersVars, windowVars, queryVars, filterVars, debounceVars, urlVars, paramVars, pagerVars, observerVars>>

LocationInit ==
    /\ lsComp \in PageComponents
    /\ lsState \in QueryStates
    /\ \E t \in UrlTerms : lsPrior = ProductsNewUrl(lsState.page, t)
    /\ lsUrl = lsPrior
    /\ lsRead = [page |-> 1, term |-> <<>>]
    /\ lsPhase = "state"

----------------------------------------------------------------------------
(* The pages that keep their page number and search term in the URL:        *)
(* Products, TestProductsPage, TestPage and Reviews.  An event runs its     *)
(* handler and then the renders and effects it sets off, until a render     *)
(* changes no dependency of any effect.                                      *)

TotalPages == 2
MaxHistory == 3
MaxPasses == 6

UrlComponents == { "Products", "TestProductsPage", "TestPage", "Reviews" }

\* The values typed into the search box.
TypedTerms == { <<>>, <<"a">>, <<"a", "b">> }

\* The URLs a page is opened on: bare, a page link, a search link, and a
\* link that lists its parameters in another order.
MountUrls ==
    { <<>>,
      <<"?", "page", "=", "2">>,
      <<"?", "page", "=", "1", "&", "search", "=", "a">>,
      <<"?", "search", "=", "a", "&", "page", "=", "2">>,
      <<"?", "page", "=">> \o NumberToString(TotalPages + 1) }

\* The window is at the top or scrolled down.
ScrollPositions == { 0, 1 }

\* Back, forward, and two entries back or forward.
HistoryDeltas == { -2, -1, 1, 2 }

NoEvent ==
    [kind |-> "none", target |-> <<>>, pushes |-> 0, replaces |-> 0, redundant |-> 0, passes |-> 0,
     requests |-> <<>>]

Loc(r) == r.hist[r.idx]

\* location.search of a URL that ends in a bare "?" is empty.
NormalizeSearch(url) == IF url = <<"?">> THEN <<>> ELSE url

\* Navigation options that replace the current entry.
PushOptionsMutReplace == [replace |-> TRUE]

\* navigate(to) and setSearchParams(params) without options push an entry.
PushOptions == [replace |-> FALSE]

\* navigate(to, options): the entry is replaced, or pushed after the current
\* one with the forward entries dropped.
Navigate(r, url, options) ==
    LET to == NormalizeSearch(url)
        same == IF to = Loc(r) THEN 1 ELSE 0
    IN  IF options.replace
        THEN [r EXCEPT !.hist = [r.hist EXCEPT ![r.idx] = to],
                       !.replaces = @ + 1, !.redundant = @ + same]
        ELSE [r EXCEPT !.hist = Append(SubSeq(r.hist, 1, r.idx), to),
                       !.idx = @ + 1,
                       !.pushes = @ + 1, !.redundant = @ + same]

\* useDebounce(searchQuery, delay): the effect re-arms the timeout when the value changed.
ArmTimer(prev, r, all) == all \/ r.raw # prev.raw

\* Products: the effect on [searchParams] and the effect on [currentPage,
\* debouncedSearch], both over the values of the render r.
ProductsEffects(prev, r, all) ==
    LET loc == Loc(r)
        readRuns == all \/ loc # Loc(prev)
        pageFromUrl == InitialPage(loc)
        searchFromUrl == InitialSearch(loc)
        writeRuns == all \/ r.page # prev.page \/ r.deb # prev.deb
        newUrl == ProductsNewUrl(r.page, r.deb)
        written == IF writeRuns /\ loc # newUrl THEN Navigate(r, newUrl, PushOptions) ELSE r
    IN  [written EXCEPT
            !.page = IF readRuns /\ NumberDiffers(pageFromUrl, r.page) THEN pageFromUrl ELSE r.page,
            !.raw = IF readRuns /\ searchFromUrl # r.raw THEN searchFromUrl ELSE r.raw,
            !.timer = r.timer \/ ArmTimer(prev, r, all)]

\* TestProductsPage: the one effect writes the URL when it differs; the page
\* number is read from the URL at each render.
TestProductsEffects(prev, r, all) ==
    LET loc == Loc(r)
        runs == all \/ r.deb # prev.deb \/ loc # Loc(prev)
        newParams == TestNewParams(r.deb, InitialPage(loc), InitialSearch(loc))
        written == IF runs /\ Serialize(newParams) # Serialize(ParseQuery(loc))
                   THEN Navigate(r, SearchOf(newParams), PushOptions) ELSE r
    IN  [written EXCEPT !.page = InitialPage(Loc(written)),
                        !.timer = r.timer \/ ArmTimer(prev, r, all)]

\* TestPage: the effect copies the parameters, sets or deletes search, and writes.
TestPageEffects(prev, r, all) ==
    LET loc == Loc(r)
        runs == all \/ r.deb # prev.deb \/ loc # Loc(prev)
        newParams == IF r.deb # <<>> THEN ParamsSet(ParseQuery(loc), "search", r.deb)
                     ELSE ParamsDelete(ParseQuery(loc), "search")
        written == IF runs THEN Navigate(r, SearchOf(newParams), PushOptions) ELSE r
    IN  [written EXCEPT !.timer = r.timer \/ ArmTimer(prev, r, all)]

\* Reviews: navigate(`?page=${currentPage}`, { replace: true }) on [currentPage].
ReviewsEffects(prev, r, all) ==
    IF all \/ r.page # prev.page
    THEN Navigate(r, <<"?", "page", "=">> \o NumberToString(r.page), [replace |-> TRUE])
    ELSE r

Effects(prev, r, all) ==
    CASE r.comp = "Products" -> ProductsEffects(prev, r, all)
      [] r.comp = "TestProductsPage" -> TestProductsEffects(prev, r, all)
      [] r.comp = "TestPage" -> TestPageEffects(prev, r, all)
      [] r.comp = "Reviews" -> ReviewsEffects(prev, r, all)

\* The key of the page query in the render r: the page, and in
\* TestProductsPage the debounced term; TestPage has one key for all renders.
QueryKey(r) ==
    CASE r.comp = "TestProductsPage" -> [page |-> InitialPage(Loc(r)), term |-> r.deb]
      [] r.comp = "TestPage" -> [page |-> 1, term |-> <<>>]
      [] OTHER -> [page |-> r.page, term |-> <<>>]

\* useQuery: the observer takes the key of the committed render in an effect
\* and, the key being new and without cached data, requests it.
QueryRequests(prev, r, all) ==
    IF all \/ QueryKey(r) # QueryKey(prev) THEN Append(r.requests, QueryKey(r))
    ELSE r.requests

\* Render after render until the effects change nothing more.
RECURSIVE Settle(_, _, _)
Settle(prev, r, all) ==
    LET n == [Effects(prev, r, all) EXCEPT !.passes = r.passes, !.requests = r.requests]
        asked == QueryRequests(prev, r, all)
    IN  IF n = r \/ r.passes = MaxPasses THEN [r EXCEPT !.requests = asked]
        ELSE Settle(r, [n EXCEPT !.passes = @ + 1, !.requests = asked], FALSE)

\* The values of the latest render.
Rendered ==
    [ comp |-> comp, page |-> currentPage, raw |-> searchQuery, deb |-> debouncedSearch,
      timer |-> timerPending, hist |-> history, idx |-> hIndex,
      pushes |-> 0, replaces |-> 0, redundant |-> 0, passes |-> 0, requests |-> <<>> ]

\* The settled state r becomes the state of the page.
Commit(r, kind, target, ty) ==
    /\ Len(r.hist) <= MaxHistory
    /\ comp' = r.comp
    /\ history' = r.hist
    /\ hIndex' = r.idx
    /\ currentPage' = r.page
    /\ searchQuery' = r.raw
    /\ debouncedSearch' = r.deb
    /\ timerPending' = r.timer
    /\ typed' = ty
    /\ lastEvent' = [ kind |-> kind, target |-> target, pushes |-> r.pushes,
                      replaces |-> r.replaces, redundant |-> r.redundant, passes |-> r.passes,
                      requests |-> r.requests ]
    /\ UNCHANGED <<usersVars, windowVars, queryVars, filterVars, debounceVars, locationVars, paramVars, pagerVars, observerVars>>

\* handleSearchChange(value), from the onChange of the search box.  Products
\* also sets the page to 1 when the value differs from searchQuery.
HandleSearchChange(v) ==
    /\ comp # "Reviews"
    /\ v # searchQuery
    /\ LET r0 == [Rendered EXCEPT
                    !.raw = v,
                    !.page = IF comp = "Products" /\ v # searchQuery THEN 1 ELSE @]
       IN  Commit(Settle(Rendered, r0, FALSE), "type", <<>>, [has |-> TRUE, value |-> v])
    /\ UNCHANGED windowScrollY

\* if (page < 1 || page > totalPages) return;
OutOfRangeMutNoUpper(p, total) == p < 1

OutOfRange(p, total) == p < 1 \/ p > total

\* goToPage(page).  Products and Reviews return for a page outside
\* 1..totalPages, and otherwise set currentPage and scroll the window to the
\* top; TestProductsPage writes the page into the URL and scrolls to the top.
GoToPage(p) ==
    /\ comp # "TestPage"
    /\ comp = "TestProductsPage" => p \in 1..TotalPages
    /\ LET r0 == IF comp = "TestProductsPage"
                 THEN Navigate(Rendered,
                               SearchOf(ParamsSet(ParseQuery(Loc(Rendered)), "page", NumberToString(p))),
                               PushOptions)
                 ELSE IF OutOfRange(p, TotalPages) THEN Rendered
                 ELSE [Rendered EXCEPT !.page = p]
       IN  Commit(Settle(Rendered, r0, FALSE), "goToPage", <<p>>, typed)
    /\ windowScrollY' = IF comp # "TestProductsPage" /\ OutOfRange(p, TotalPages)
                        THEN windowScrollY ELSE 0

\* The pending timeout of useDebounce runs: setDebouncedValue(value).
DebounceTimeout ==
    /\ timerPending
    /\ LET r0 == [Rendered EXCEPT !.deb = searchQuery, !.timer = FALSE]
       IN  Commit(Settle(Rendered, r0, FALSE), "timeout", <<>>, typed)
    /\ UNCHANGED windowScrollY

\* The user goes back or forward in the session history; the browser puts
\* the window where it was for that entry.
PopState(d) ==
    /\ hIndex + d \in 1..Len(history)
    /\ LET r0 == [Rendered EXCEPT !.idx = hIndex + d]
       IN  Commit(Settle(Rendered, r0, FALSE), "pop", history[hIndex + d],
                  [has |-> FALSE, value |-> <<>>])
    /\ windowScrollY' \in ScrollPositions

\* The user scrolls the window.
ScrollWindow(y) ==
    /\ y # windowScrollY
    /\ windowScrollY' = y
    /\ lastEvent' = [NoEvent EXCEPT !.kind = "scroll"]
    /\ UNCHANGED <<comp, history, hIndex, currentPage, searchQuery, debouncedSearch,
                   timerPending, typed>>
    /\ UNCHANGED <<usersVars, windowVars, queryVars, filterVars, debounceVars, locationVars, paramVars, pagerVars, observerVars>>

\* The component mounts on a URL: the state is initialised from the URL and
\* every effect runs.
Mounted(c, u) ==
    LET r0 == [ comp |-> c,
                page |-> IF c = "TestPage" THEN 1 ELSE InitialPage(u),
                raw |-> IF c = "Reviews" THEN <<>> ELSE InitialSearch(u),
                deb |-> IF c = "Reviews" THEN <<>> ELSE InitialSearch(u),
                timer |-> FALSE, hist |-> <<u>>, idx |-> 1,
                pushes |-> 0, replaces |-> 0, redundant |-> 0, passes |-> 0,
                requests |-> <<>> ]
    IN  Settle(r0, r0, TRUE)

UrlInit ==
    \E c \in UrlComponents, u \in MountUrls :
        LET r == Mounted(c, u)
        IN  /\ comp = r.comp
            /\ history = r.hist
            /\ hIndex = r.idx
            /\ currentPage = r.page
            /\ searchQuery = r.raw
            /\ debouncedSearch = r.deb
            /\ timerPending = r.timer
            /\ typed = [has |-> FALSE, value |-> <<>>]
            /\ windowScrollY = 0
            /\ lastEvent = [ kind |-> "mount", target |-> u, pushes |-> r.pushes,
                             replaces |-> r.replaces, redundant |-> r.redundant,
                             passes |-> r.passes, requests |-> r.requests ]

----------------------------------------------------------------------------
(* SomePage (ProductsPage): every filter lives in the URL and is changed by *)
(* updateSearchParams.                                                      *)

\* The parameter names the page passes, and one it does not know.
ParamKeys == { "search", "category", "rating", "page" }
ParamNames == ParamKeys \cup { "ref" }

\* The values passed: cleared, "all", a term with a reserved character, a page number.
ParamValues == { <<>>, <<"a", "l", "l">>, <<"a", "&">>, <<"2">> }

\* The URLs the page is opened on.
ParamUrls ==
    { <<>>,
      <<"?", "ref", "=", "x", "&", "page", "=", "3">>,
      <<"?", "category", "=", "a", "&", "search", "=", "b", "&", "rating", "=", "4">> }

NoCall == [key |-> "none", value |-> <<>>, before |-> <<>>]

\* An update that resets the page for every key.
UpdatedParamsMutAlwaysReset(params, key, v) ==
    LET named == IF v # <<>> /\ v # <<"a", "l", "l">> THEN ParamsSet(params, key, v)
                 ELSE ParamsDelete(params, key)
    IN  ParamsSet(named, "page", <<"1">>)

\* newParams of updateSearchParams(key, value)
UpdatedParams(params, key, v) ==
    LET named == IF v # <<>> /\ v # <<"a", "l", "l">> THEN ParamsSet(params, key, v)
                 ELSE ParamsDelete(params, key)
    IN  IF key # "page" THEN ParamsSet(named, "page", <<"1">>) ELSE named

\* updateSearchParams(key, value): setSearchParams(newParams)
UpdateSearchParams(key, v) ==
    /\ spUrl' = NormalizeSearch(SearchOf(UpdatedParams(ParseQuery(spUrl), key, v)))
    /\ spLast' = [key |-> key, value |-> v, before |-> spUrl]
    /\ UNCHANGED <<usersVars, windowVars, queryVars, filterVars, debounceVars, locationVars,
                   urlVars, pagerVars, observerVars>>

ParamsInit ==
    /\ spUrl \in ParamUrls
    /\ spLast = NoCall

(* UsersPage with the life of its IntersectionObserver: the effect          *)
(* disconnects the observer and creates a new one whenever one of its       *)
(* dependencies changes, and observe() queues a first entry for the         *)
(* sentinel; later entries are queued when the sentinel enters or leaves    *)
(* the root's margin. The batch queued is handed to the callback at once.   *)

\* The entries one observer holds before the browser runs its callback.
MaxQueued == 3

\* The cancelled requests still unanswered at one time.
MaxLate == 1

\* The terms typed into the search box: one that matches users, and none.
ObserverTerms == { <<>>, <<"a", "B">> }

\* The effect's dependencies the renders can change (fetchNextPage is stable).
ObserverDepsMutNoQuery == <<hasNextPage, isFetchingNextPage>>

ObserverDepsMutNoFetching == <<hasNextPage, emailQuery>>

ObserverDeps == <<hasNextPage, isFetchingNextPage, emailQuery>>

\* The entries queued after a render: none without the list view (the refs
\* are null), the first entry of a new observer when a dependency changed,
\* the queue of the observer kept otherwise.
Reobserve(queue) ==
    IF isError' THEN <<>>
    ELSE IF ObserverDeps' # ObserverDeps THEN <<sentinelVisible'>>
    ELSE queue

\* The sentinel sits one pixel below the rows: with no row it is in view,
\* with rows it is in view or not, as the viewport is scrolled.
SentinelPlaces(rows) == IF rows = <<>> THEN { TRUE } ELSE BOOLEAN

\* The browser hands the queued entries to the observer's callback.
DeliverEntries ==
    /\ ~isError
    /\ sentinelEntries # <<>>
    /\ LET f == RunEntries(FetchState, sentinelEntries, pages, hasNextPage,
                           isFetchingNextPage, emailQuery)
       IN  /\ AbandonedTotal(f.ab) <= MaxLate
           /\ fetchPage' = f.page
           /\ failureCount' = f.failures
           /\ retryWait' = f.wait
           /\ abandoned' = f.ab
    /\ lastStep' = [kind |-> "observer", arg |-> sentinelEntries]
    /\ UNCHANGED <<pages, isError, emailQuery, sentinelVisible>>
    /\ sentinelEntries' = Reobserve(<<>>)
    /\ UNCHANGED <<windowVars, queryVars, filterVars, debounceVars, locationVars,
                   urlVars, paramVars, pagerVars>>

\* The viewport is scrolled and the sentinel enters or leaves the margin.
ScrollSentinel ==
    /\ ~isError
    /\ filtered # <<>>
    /\ Len(sentinelEntries) < MaxQueued
    /\ sentinelVisible' = ~sentinelVisible
    /\ sentinelEntries' = Append(sentinelEntries, ~sentinelVisible)
    /\ lastStep' = [kind |-> "scroll", arg |-> ~sentinelVisible]
    /\ UNCHANGED <<pages, fetchPage, failureCount, retryWait, abandoned, isError,
                   emailQuery>>
    /\ UNCHANGED <<windowVars, queryVars, filterVars, debounceVars, locationVars,
                   urlVars, paramVars, pagerVars>>

\* The page requested arrives; the rows grow and the sentinel moves down.
PageArrives ==
    /\ fetchPage # 0 /\ ~retryWait
    /\ pages' = OnResponse(pages, FetchUsersPage(fetchPage), TRUE)
    /\ fetchPage' = 0
    /\ failureCount' = 0
    /\ lastStep' = [kind |-> "success", arg |-> fetchPage]
    /\ UNCHANGED <<retryWait, abandoned, isError, emailQuery>>
    /\ \E v \in SentinelPlaces(filtered') :
          /\ sentinelVisible' = v
          /\ sentinelEntries' = Reobserve(IF v # sentinelVisible
                                          THEN Append(sentinelEntries, v)
                                          ELSE sentinelEntries)
    /\ UNCHANGED <<windowVars, queryVars, filterVars, debounceVars, locationVars,
                   urlVars, paramVars, pagerVars>>

\* The request fails: the retryer waits, or the error view replaces the list.
PageFails ==
    /\ fetchPage # 0 /\ ~retryWait
    /\ IF failureCount < RETRY
       THEN /\ failureCount' = failureCount + 1
            /\ retryWait' = TRUE
            /\ UNCHANGED <<fetchPage, isError, sentinelVisible>>
       ELSE /\ failureCount' = 0
            /\ fetchPage' = 0
            /\ isError' = TRUE
            /\ sentinelVisible' = FALSE
            /\ UNCHANGED retryWait
    /\ lastStep' = [kind |-> "failure", arg |-> fetchPage]
    /\ UNCHANGED <<pages, abandoned, emailQuery>>
    /\ sentinelEntries' = Reobserve(sentinelEntries)
    /\ UNCHANGED <<windowVars, queryVars, filterVars, debounceVars, locationVars,
                   urlVars, paramVars, pagerVars>>

\* The retry delay has elapsed; nothing the component renders changes.
RetryElapses ==
    /\ fetchPage # 0 /\ retryWait
    /\ retryWait' = FALSE
    /\ lastStep' = [kind |-> "retry", arg |-> fetchPage]
    /\ UNCHANGED <<pages, fetchPage, failureCount, abandoned, isError, emailQuery>>
    /\ UNCHANGED <<windowVars, queryVars, filterVars, debounceVars, locationVars,
                   urlVars, paramVars, pagerVars, observerVars>>

\* The answer of a cancelled fetch arrives and is dropped.
LateResponse(p) ==
    /\ abandoned[p] > 0
    /\ abandoned' = [abandoned EXCEPT ![p] = @ - 1]
    /\ pages' = OnResponse(pages, FetchUsersPage(p), FALSE)
    /\ lastStep' = [kind |-> "dropped", arg |-> p]
    /\ UNCHANGED <<fetchPage, failureCount, retryWait, isError, emailQuery>>
    /\ UNCHANGED <<windowVars, queryVars, filterVars, debounceVars, locationVars,
                   urlVars, paramVars, pagerVars, observerVars>>

\* The search box changes; the rows change and the sentinel moves with them.
ChangeEmailQuery(t) ==
    /\ ~isError
    /\ t # emailQuery
    /\ emailQuery' = t
    /\ lastStep' = [kind |-> "search", arg |-> t]
    /\ UNCHANGED <<pages, fetchPage, failureCount, retryWait, abandoned, isError>>
    /\ \E v \in SentinelPlaces(filtered') :
          /\ sentinelVisible' = v
          /\ sentinelEntries' = Reobserve(IF v # sentinelVisible
                                          THEN Append(sentinelEntries, v)
                                          ELSE sentinelEntries)
    /\ UNCHANGED <<windowVars, queryVars, filterVars, debounceVars, locationVars,
                   urlVars, paramVars, pagerVars>>

\* After mount: no row yet, the sentinel in view, its first entry queued.
ObserverInit == sentinelVisible = TRUE /\ sentinelEntries = <<TRUE>>

----------------------------------------------------------------------------
(* The page number lists under the page buttons: getVisiblePages of Reviews *)
(* and of PaginationPage, getPageNumbers of TestProductsPage.  The lists    *)
(* are computed by every render from totalPages and the current page.  The  *)
(* marker "..." is written Dots.                                            *)

MaxPagerTotal == 9

Dots == 0

PagerComponents == { "Reviews", "PaginationPage" }

\* The integers lo..hi in ascending order: for (let i = lo; i <= hi; i++) push(i)
Upto(lo, hi) == [i \in 1..Max(0, hi - lo + 1) |-> lo + i - 1]

\* totalPages as each component computes it: Reviews and TestProductsPage
\* take 1 while the query has no data, PaginationPage counts a static list.
TotalPagesOf(c, data, total) ==
    IF c = "PaginationPage" THEN total
    ELSE IF data THEN total ELSE 1

\* getVisiblePages: page 1, the pages within delta of the current one, the
\* last page, and "..." where pages are left out.  Reviews returns [] without
\* data and adds the last page only when totalPages > 1; PaginationPage adds
\* it always.
GetVisiblePages(c, data, totalPages, page) ==
    LET delta == 2
        middle == Upto(Max(2, page - delta), Min(totalPages - 1, page + delta))
        first == IF page - delta > 2 THEN <<1, Dots>> ELSE <<1>>
        last == IF page + delta < totalPages - 1 THEN <<Dots, totalPages>>
                ELSE IF c = "Reviews" /\ ~(totalPages > 1) THEN <<>>
                ELSE <<totalPages>>
    IN  IF c = "Reviews" /\ ~data THEN <<>>
        ELSE first \o middle \o last

\* getPageNumbers without the adjustment near the end.
GetPageNumbersMutNoAdjust(totalPages, page) ==
    Upto(Max(1, page - 2), Min(totalPages, Max(1, page - 2) + 5 - 1))

\* getPageNumbers: up to maxVisiblePages consecutive pages around the page.
GetPageNumbers(totalPages, page) ==
    LET maxVisiblePages == 5
        start0 == Max(1, page - 2)
        end == Min(totalPages, start0 + maxVisiblePages - 1)
        start == IF end - start0 + 1 < maxVisiblePages
                 THEN Max(1, end - maxVisiblePages + 1)
                 ELSE start0
    IN  Upto(start, end)

\* What a render shows for the data, the page count and the current page.
VisibleLists(data, total, page) ==
    [c \in PagerComponents |->
        GetVisiblePages(c, data, TotalPagesOf(c, data, total), page)]

NumberList(data, total, page) ==
    GetPageNumbers(TotalPagesOf("TestProductsPage", data, total), page)

\* The current page changes (a page button, or the page of the URL); the
\* query of the new page has data when it is cached.
ShowPage(p, cached) ==
    /\ p # pgCurrent
    /\ pgCurrent' = p
    /\ pgData' = cached
    /\ pgVisible' = VisibleLists(cached, pgTotal, p)
    /\ pgNumbers' = NumberList(cached, pgTotal, p)
    /\ UNCHANGED pgTotal
    /\ UNCHANGED <<usersVars, windowVars, queryVars, filterVars, debounceVars, locationVars,
                   urlVars, paramVars, observerVars>>

\* The query of the current page resolves.
PageDataLoaded ==
    /\ ~pgData
    /\ pgData' = TRUE
    /\ pgVisible' = VisibleLists(TRUE, pgTotal, pgCurrent)
    /\ pgNumbers' = NumberList(TRUE, pgTotal, pgCurrent)
    /\ UNCHANGED <<pgTotal, pgCurrent>>
    /\ UNCHANGED <<usersVars, windowVars, queryVars, filterVars, debounceVars, locationVars,
                   urlVars, paramVars, observerVars>>

\* The first render: no data yet, the page taken from the URL.
PagerInit ==
    /\ pgData = FALSE
    /\ pgTotal \in 1..MaxPagerTotal
    /\ pgCurrent \in 1..MaxPagerTotal
    /\ pgVisible = VisibleLists(pgData, pgTotal, pgCurrent)
    /\ pgNumbers = NumberList(pgData, pgTotal, pgCurrent)

----------------------------------------------------------------------------
(* Each machine runs with the others idle.                                  *)

WindowIdle ==
    /\ scrollOffset = 0 /\ viewportHeight = 1 /\ itemHeight = 1
    /\ overscan = 0 /\ itemCount = 0 /\ range = [start |-> 0, end |-> 0]

QueryIdle ==
    /\ qKey = NoData /\ qCache = <<>> /\ qFetching = {} /\ qLastResponse = "none"

UsersIdle ==
    /\ pages = <<>> /\ fetchPage = 0 /\ failureCount = 0 /\ retryWait = FALSE
    /\ abandoned = <<>> /\ isError = FALSE /\ emailQuery = <<>>
    /\ lastStep = [kind |-> "mount", arg |-> 1]

FilterIdle == fItems = <<>> /\ fTerm = <<>> /\ fResult = <<>>

DebounceIdle ==
    /\ value = <<>> /\ debouncedValue = <<>> /\ timers = <<>>
    /\ sinceInput = 0 /\ burst = <<>> /\ published = <<>>

LocationIdle ==
    /\ lsComp = "Products" /\ lsState = [page |-> 1, term |-> <<>>]
    /\ lsPrior = <<>> /\ lsUrl = <<>>
    /\ lsRead = [page |-> 1, term |-> <<>>] /\ lsPhase = "state"

UrlIdle ==
    /\ comp = "Products" /\ history = << <<>> >> /\ hIndex = 1
    /\ currentPage = 1 /\ searchQuery = <<>> /\ debouncedSearch = <<>>
    /\ timerPending = FALSE /\ typed = [has |-> FALSE, value |-> <<>>]
    /\ windowScrollY = 0
    /\ lastEvent = NoEvent

ParamsIdle == spUrl = <<>> /\ spLast = NoCall

PagerIdle ==
    /\ pgData = FALSE /\ pgTotal = 1 /\ pgCurrent = 1
    /\ pgVisible = <<>> /\ pgNumbers = <<>>

ObserverIdle == sentinelVisible = FALSE /\ sentinelEntries = <<>>

ExtraIdle == FilterIdle /\ DebounceIdle /\ LocationIdle /\ UrlIdle /\ ParamsIdle /\ PagerIdle /\ ObserverIdle

Init == UsersInit /\ WindowIdle /\ QueryIdle /\ ExtraIdle

Next ==
    \/ \E entries \in EntryBatches : ObserverCallback(entries)
    \/ FetchSuccess
    \/ FetchFail
    \/ RetryFire
    \/ \E p \in 1..MAX_PAGE : AbandonedResponse(p)
    \/ \E t \in SearchTerms : SetEmailQuery(t)

Spec == Init /\ [][Next]_vars

InitWindow == UsersIdle /\ WindowInit /\ QueryIdle /\ ExtraIdle

NextWindow ==
    \/ \E o \in 0..MaxScroll : OnScroll(o)
    \/ \E v \in 1..MaxViewport : OnResize(v)
    \/ \E n \in 0..MaxCount : SetCount(n)

SpecWindow == InitWindow /\ [][NextWindow]_vars

InitQuery == UsersIdle /\ WindowIdle /\ QueryInit /\ ExtraIdle

NextQuery ==
    \/ \E k \in QueryKeys, stale \in BOOLEAN : SetQueryKey(k, stale)
    \/ \E k \in QueryKeys : QueryResponse(k)
    \/ \E k \in QueryKeys : QueryFailure(k)

SpecQuery == InitQuery /\ [][NextQuery]_vars

InitFilter ==
    /\ UsersIdle /\ WindowIdle /\ QueryIdle /\ FilterInit /\ DebounceIdle /\ LocationIdle /\ UrlIdle
    /\ ParamsIdle /\ PagerIdle /\ ObserverIdle

NextFilter ==
    \/ \E items \in ProductLists : LoadProducts(items)
    \/ \E t \in FilterTerms : SetDebouncedSearch(t)

SpecFilter == InitFilter /\ [][NextFilter]_vars

InitDebounce ==
    /\ UsersIdle /\ WindowIdle /\ QueryIdle /\ FilterIdle /\ DebounceInit /\ LocationIdle /\ UrlIdle
    /\ ParamsIdle /\ PagerIdle /\ ObserverIdle

NextDebounce ==
    \/ \E v \in DebounceTerms : SetValue(v)
    \/ Tick

SpecDebounce == InitDebounce /\ [][NextDebounce]_vars

InitLocation ==
    /\ UsersIdle /\ WindowIdle /\ QueryIdle /\ FilterIdle /\ DebounceIdle /\ LocationInit /\ UrlIdle
    /\ ParamsIdle /\ PagerIdle /\ ObserverIdle

NextLocation ==
    \/ WriteLocation
    \/ ReadLocation
    \/ \E c \in PageComponents, st \in QueryStates, t \in UrlTerms : HoldState(c, st, t)

SpecLocation == InitLocation /\ [][NextLocation]_vars

InitUrl ==
    /\ UsersIdle /\ WindowIdle /\ QueryIdle /\ FilterIdle /\ DebounceIdle /\ LocationIdle /\ UrlInit
    /\ ParamsIdle /\ PagerIdle /\ ObserverIdle

NextUrl ==
    \/ \E v \in TypedTerms : HandleSearchChange(v)
    \/ \E p \in 0..(TotalPages + 1) : GoToPage(p)
    \/ DebounceTimeout
    \/ \E d \in HistoryDeltas : PopState(d)
    \/ \E y \in ScrollPositions : ScrollWindow(y)

SpecUrl == InitUrl /\ [][NextUrl]_vars

InitParams ==
    /\ UsersIdle /\ WindowIdle /\ QueryIdle /\ FilterIdle /\ DebounceIdle /\ LocationIdle /\ UrlIdle
    /\ ParamsInit /\ PagerIdle /\ ObserverIdle

NextParams ==
    \E key \in ParamKeys, v \in ParamValues : UpdateSearchParams(key, v)

SpecParams == InitParams /\ [][NextParams]_vars

InitObserver ==
    /\ UsersInit /\ WindowIdle /\ QueryIdle
    /\ FilterIdle /\ DebounceIdle /\ LocationIdle /\ UrlIdle
    /\ ParamsIdle /\ PagerIdle /\ ObserverInit

NextObserver ==
    \/ DeliverEntries
    \/ ScrollSentinel
    \/ PageArrives
    \/ PageFails
    \/ RetryElapses
    \/ \E p \in 1..MAX_PAGE : LateResponse(p)
    \/ \E t \in ObserverTerms : ChangeEmailQuery(t)

\* The browser delivers queued entries, every request is answered, the retry
\* timer fires, and cancelled requests are answered too.
FairObserver ==
    /\ WF_vars(DeliverEntries)
    /\ WF_vars(PageArrives \/ PageFails)
    /\ WF_vars(RetryElapses)
    /\ WF_vars(\E p \in 1..MAX_PAGE : LateResponse(p))

SpecObserver == InitObserver /\ [][NextObserver]_vars /\ FairObserver

InitPager ==
    /\ UsersIdle /\ WindowIdle /\ QueryIdle
    /\ FilterIdle /\ DebounceIdle /\ LocationIdle /\ UrlIdle
    /\ ParamsIdle /\ PagerInit /\ ObserverIdle

NextPager ==
    \/ \E p \in 1..MaxPagerTotal, cached \in BOOLEAN : ShowPage(p, cached)
    \/ PageDataLoaded

SpecPager == InitPager /\ [][NextPager]_vars

----------------------------------------------------------------------------
(* Properties of UsersPage (specification Spec).                           *)

SeqRange(q) == { q[i] : i \in 1..Len(q) }

\* The latest step was an observer callback that carried an intersecting entry.
Triggered == lastStep.kind = "observer" /\ TRUE \in SeqRange(lastStep.arg)

\* The fetch status of the list, read off the query.
Status ==
    IF isError THEN "Failed"
    ELSE IF fetchPage # 0 THEN "InFlight"
    ELSE IF pages # <<>> /\ ~hasNextPage THEN "Exhausted"
    ELSE "Idle"

\* C1: single-flight - in every reachable state at most one page request of
\* the users list is on the wire, so a trigger that arrives while a fetch is
\* in flight issues no second request.
C1_SingleFlight == Outstanding <= 1

\* C2: while the filter term is non-empty, a sentinel trigger never issues a
\* next-page fetch: a callback handled with a non-empty term leaves the fetch
\* state and the requests on the wire as they were.
C2_SearchSuppressesFetch ==
    [][ (emailQuery # <<>> /\ lastStep'.kind = "observer")
            => UNCHANGED <<fetchPage, failureCount, retryWait, abandoned, pages>> ]_vars

\* A trigger was handled with a term that matches nothing over two loaded pages,
\* with a next page available and no fetch in progress.
C2_Witness ==
    /\ Triggered
    /\ emailQuery = <<"z", "z">>
    /\ Len(loadedUsers) >= 20
    /\ filtered = <<>>
    /\ hasNextPage /\ fetchPage = 0

\* C6: a fetch failure never clears the loaded items - after a next-page
\* fetch has failed the loaded items (as filtered) are still what is shown.
C6_FailureKeepsItemsShown ==
    (isError /\ pages # <<>>) => (RenderedUsers = filtered /\ RenderedUsers # <<>>)

\* C7: after a failed fetch the list is in a state from which the next
\* trigger re-issues the fetch (the observer is attached), and no request is
\* ever issued by an automatic retry.
C7_RetryOnlyOnTrigger ==
    /\ lastStep.kind # "retry"
    /\ (isError => ObserverAttached)

AllowedMoves ==
    { <<"Idle", "InFlight">>, <<"InFlight", "Idle">>, <<"InFlight", "Exhausted">>,
      <<"InFlight", "Failed">>, <<"Failed", "Idle">> }

\* C8: the fetch status moves only along Idle -> InFlight -> {Idle, Exhausted,
\* Failed} and Failed -> Idle; it becomes Exhausted exactly when a successful
\* response carries no next page; once Exhausted it stays so and no request is
\* issued any more.
C8_StatusMoves ==
    [][ /\ (Status' # Status => <<Status, Status'>> \in AllowedMoves)
        /\ ((Status # "Exhausted" /\ Status' = "Exhausted")
              <=> (lastStep'.kind = "success" /\ pages' # pages
                     /\ (pages')[Len(pages')].nextPage = 0))
        /\ (Status = "Exhausted"
              => (Status' = "Exhausted" /\ Outstanding' <= Outstanding /\ pages' = pages))
      ]_vars

\* The last page has been loaded and the list is exhausted.
C8_Witness == Status = "Exhausted" /\ Len(pages) = MAX_PAGE

\* C9: with the status Idle, a next page available and an empty filter term,
\* a trigger issues exactly one request, for the next page; and whenever a
\* fetch resolves the loaded set grows by exactly that page's items at the
\* tail, the earlier items unchanged.
C9_TriggerFetchesNextPageOnce ==
    [][ /\ ( ( /\ Status = "Idle" /\ hasNextPage /\ emailQuery = <<>>
               /\ lastStep'.kind = "observer" /\ TRUE \in SeqRange(lastStep'.arg) )
             => (fetchPage' = Len(pages) + 1 /\ Outstanding' = Outstanding + 1) )
        /\ ( pages' # pages
             => /\ Len(Flatten(pages')) = Len(loadedUsers) + PAGE_SIZE
                /\ SubSeq(Flatten(pages'), 1, Len(loadedUsers)) = loadedUsers )
      ]_vars

\* The loaded set is the concatenation of pages 1..k.
PagesInOrder == \A i \in 1..Len(pages) : pages[i] = FetchUsersPage(i)

----------------------------------------------------------------------------
(* Properties of the row window (specification SpecWindow).                *)

\* C4 as stated: 0 <= start <= end <= itemCount with
\* start = max(0, floor(scrollOffset/itemHeight) - overscan) and
\* end = min(itemCount, ceil((scrollOffset + viewportHeight)/itemHeight) + overscan).
C4_RangeByFormula ==
    /\ 0 <= range.start /\ range.start <= range.end /\ range.end <= itemCount
    /\ range.start = Max(0, (scrollOffset \div itemHeight) - overscan)
    /\ range.end = Min(itemCount, CeilDiv(scrollOffset + viewportHeight, itemHeight) + overscan)

\* C4, amended: 0 <= start <= end <= itemCount always, the range is empty for
\* itemCount = 0, end is given by the formula, and start is given by the
\* formula while the scroll offset lies within the content; with the offset
\* beyond the content the first visible row is the last row.
C4_RangeWithinBounds ==
    /\ 0 <= range.start /\ range.start <= range.end /\ range.end <= itemCount
    /\ (itemCount = 0 => range.start = range.end)
    /\ range.end = Min(itemCount, CeilDiv(scrollOffset + viewportHeight, itemHeight) + overscan)
    /\ (scrollOffset \div itemHeight < itemCount
          => range.start = Max(0, (scrollOffset \div itemHeight) - overscan))
    /\ (scrollOffset \div itemHeight >= itemCount
          => range.start = Max(0, itemCount - 1 - overscan))

\* The list shrank under a scroll offset that now lies beyond its content.
C4_Witness ==
    /\ itemCount > 0
    /\ scrollOffset >= itemCount * itemHeight + overscan * itemHeight
    /\ range.end = itemCount

\* C5 as stated: end - start <= viewportHeight/itemHeight + 2*overscan.
C5_SizeBoundAsStated ==
    (range.end - range.start) * itemHeight <= viewportHeight + 2 * overscan * itemHeight

\* C5, amended: end - start <= ceil(viewportHeight/itemHeight) + 1 + 2*overscan,
\* a bound that does not depend on itemCount.
C5_SizeBound ==
    range.end - range.start <= CeilDiv(viewportHeight, itemHeight) + 1 + 2 * overscan

\* The bound is met at a scroll offset that is no multiple of the row height.
C5_Witness ==
    /\ scrollOffset % itemHeight # 0
    /\ range.end - range.start = CeilDiv(viewportHeight, itemHeight) + 1 + 2 * overscan
    /\ itemCount > range.end

----------------------------------------------------------------------------
(* Properties of the page query (specification SpecQuery).                 *)

\* C3: the response of a fetch started for another query key is never what
\* is shown: the data given to the component is the data of the key of the
\* latest render, or none.
C3_NoStaleResponseShown == response \in {NoData, FetchProducts(qKey)}

\* The response of a fetch for a previous key arrived while the current key
\* is still being fetched.
C3_Witness ==
    /\ qLastResponse = "stale"
    /\ qKey \in qFetching
    /\ response = NoData

----------------------------------------------------------------------------
(* Properties of the client-side filters (specification SpecFilter).        *)

\* The users list built from the same positions as the product list.
UsersOf(items) == [i \in 1..Len(items) |-> User(items[i].id)]

\* C11: filtering is idempotent, apply(apply(items, t), t) = apply(items, t),
\* and the empty term gives back the loaded list itself, for the product
\* filter and for the e-mail filter of UsersPage.
C11_FilterIdempotent ==
    /\ fResult = FilterProducts(fItems, fTerm)
    /\ FilterProducts(fResult, fTerm) = fResult
    /\ fTerm = <<>> => fResult = fItems
    /\ \A t \in FilterTerms :
         LET us == UsersOf(fItems)
         IN  /\ Filter(Filter(us, t), t) = Filter(us, t)
             /\ Filter(us, <<>>) = us

\* A term that keeps one product of the list and drops another.
C11_Witness ==
    fTerm # <<>> /\ fResult # <<>> /\ Len(fResult) < Len(fItems)

\* Two characters are the same letter: equal, or the two cases of one letter.
SameLetter(c, d) ==
    c = d \/ {c, d} = {"a", "A"} \/ {c, d} = {"b", "B"}

ContainsIgnoringCase(field, t) ==
    \E i \in 0..(Len(field) - Len(t)) : \A j \in 1..Len(t) : SameLetter(field[i + j], t[j])

AnyFieldContains(p, t) ==
    \/ ContainsIgnoringCase(p.name, t)
    \/ ContainsIgnoringCase(p.category, t)
    \/ ContainsIgnoringCase(p.sku, t)

\* C12: for a non-empty term the filtered list is exactly the loaded products
\* of which at least one of name, category, sku contains the term ignoring
\* case, in loaded order and with nothing else.
C12_FilterSoundAndComplete ==
    fTerm # <<>> =>
        LET kept == { i \in 1..Len(fItems) : AnyFieldContains(fItems[i], fTerm) }
        IN  /\ Len(fResult) = Cardinality(kept)
            /\ \A k \in 1..Len(fResult) :
                 \E i \in kept : /\ fResult[k] = fItems[i]
                                 /\ Cardinality({ j \in kept : j < i }) = k - 1

\* A mixed-case term matched through the name of one product and the category
\* of another, with a product between them dropped.
C12_Witness ==
    /\ fTerm = <<"a", "B">>
    /\ fItems = << ProductTable[2], ProductTable[4], ProductTable[1] >>
    /\ fResult = << ProductTable[2], ProductTable[1] >>

----------------------------------------------------------------------------
(* Properties of useDebounce (specification SpecDebounce).                  *)

\* C13: the debounce is trailing.  While the inputs of a burst come less than
\* the delay apart nothing is published, and once the delay has passed since
\* the last input exactly one term has been published, the last input, and
\* it is the debounced value.
C13_TrailingDebounce ==
    /\ sinceInput < DelayTicks => published = <<>>
    /\ sinceInput = DelayTicks =>
         /\ timers = <<>>
         /\ published = <<value>>
         /\ debouncedValue = value

\* The burst "a", "ab", "abc" has published "abc" alone.
C13_Witness ==
    /\ burst = << <<"a">>, <<"a", "b">>, <<"a", "b", "c">> >>
    /\ sinceInput = DelayTicks
    /\ published = << <<"a", "b", "c">> >>

----------------------------------------------------------------------------
(* Properties of the location round trip (specification SpecLocation).      *)

\* C15 as stated: writing any valid page and term to the URL and reading
\* them back as at mount yields the same page and term.
C15_RoundTripAsStated ==
    lsPhase = "read" => lsRead = lsState

\* C15: the term always survives the round trip; the page number survives it
\* in Products, and in TestProductsPage when the term is the one the URL
\* carried before the write; TestProductsPage writes page 1 with a new term.
C15_RoundTrip ==
    lsPhase = "read" =>
        /\ lsRead.term = lsState.term
        /\ lsRead.page =
             IF lsComp = "TestProductsPage" /\ lsState.term # InitialSearch(lsPrior)
             THEN 1 ELSE lsState.page

\* Products has written and read back a two-digit page with a term that
\* holds a reserved character.
C15_Witness ==
    /\ lsPhase = "read" /\ lsComp = "Products"
    /\ lsState = [page |-> MaxPageNumber, term |-> <<"a", "&", "b">>]
    /\ lsUrl # lsPrior
    /\ lsRead = lsState

----------------------------------------------------------------------------
(* Properties of the URL-synced pages (specification SpecUrl).              *)

\* C14: the search box holds the value last typed until the next user input
\* or external navigation; no URL write of the component itself (page
\* reset, publication of the debounced term) puts an older value in it.
C14_RawInputKept ==
    typed.has => searchQuery = typed.value

\* The URL of the current history entry.
Location == history[hIndex]

\* C16: the URL sync effects of Products, TestProductsPage and TestPage
\* issue a write only when the computed URL differs from the current one.
C16_WriteOnlyWhenUrlDiffers ==
    /\ comp \in { "Products", "TestProductsPage", "TestPage" }
    /\ lastEvent.kind \in { "mount", "type", "timeout", "pop" }
    => lastEvent.redundant = 0

\* C17: after a back or forward navigation to a URL whose page or search
\* differs from the state in memory, the in-memory page and term of Products
\* and TestProductsPage are those of that URL, and the URL is still that URL.
C17_ExternalNavigationWins ==
    [][ /\ comp \in { "Products", "TestProductsPage" }
        /\ lastEvent'.kind = "pop"
        /\ \/ InitialPage(lastEvent'.target) # currentPage
           \/ InitialSearch(lastEvent'.target) # searchQuery
        => /\ Location' = lastEvent'.target
           /\ currentPage' = InitialPage(lastEvent'.target)
           /\ searchQuery' = InitialSearch(lastEvent'.target) ]_vars

\* C18 as stated: a write caused by a change of the filter term replaces the
\* current history entry, and a write caused by an explicit page change
\* creates a new entry.
C18_ReplaceForTermPushForPage ==
    /\ lastEvent.kind \in { "type", "timeout" } => lastEvent.pushes = 0
    /\ lastEvent.kind = "goToPage" => lastEvent.replaces = 0

\* C18: every URL write of Products, TestProductsPage and TestPage, for a
\* term change as for a page change, pushes a new entry after the current one
\* and leaves it the last entry; Reviews replaces the current entry.
C18_HistoryWrites ==
    /\ comp # "Reviews" =>
         /\ lastEvent.replaces = 0
         /\ lastEvent.pushes > 0 => hIndex = Len(history) /\ hIndex > lastEvent.pushes
    /\ comp = "Reviews" => lastEvent.pushes = 0

\* The publication of a typed term has pushed a third entry in Products.
C18_Witness ==
    /\ comp = "Products" /\ lastEvent.kind = "timeout" /\ lastEvent.pushes = 1
    /\ typed.has /\ debouncedSearch = typed.value /\ typed.value # <<>>
    /\ Len(history) = 3 /\ hIndex = 3

\* C19: in every quiescent state of Products and TestProductsPage (no
\* timeout pending, effects settled) initialising the page from the current
\* URL yields the page number and the term held in memory.
C19_QuiescentStateMatchesUrl ==
    comp \in { "Products", "TestProductsPage" } /\ ~timerPending =>
        /\ InitialPage(Location) = currentPage
        /\ InitialSearch(Location) = searchQuery
        /\ debouncedSearch = searchQuery

----------------------------------------------------------------------------
(* The filter term of UsersPage (specification Spec).                       *)

\* C20: a keystroke in the search box that has not been published as a
\* debounced term changes neither the filtered list nor the item count given
\* to the row window.
C20_KeystrokeLeavesFilteredList ==
    [][ lastStep'.kind = "search" =>
            /\ filtered' = filtered
            /\ Len(filtered') = Len(filtered) ]_vars

----------------------------------------------------------------------------
(* Properties of updateSearchParams (specification SpecParams).             *)

\* The values a query string holds for a name, in order.
ValuesOf(search, name) ==
    LET ps == SelectSeq(ParseQuery(search), LAMBDA p : p[1] = name)
    IN  [i \in 1..Len(ps) |-> ps[i][2]]

\* C22: updateSearchParams(key, value) changes only key and page.  A value
\* that is empty or "all" removes key, any other value is stored under key;
\* for a key other than page the page becomes 1; every parameter other than
\* key and page keeps its values.
C22_UpdateChangesKeyAndPageOnly ==
    spLast.key # "none" =>
        /\ \A name \in ParamNames \ { spLast.key, "page" } :
               ValuesOf(spUrl, name) = ValuesOf(spLast.before, name)
        /\ spLast.key # "page" => ValuesOf(spUrl, "page") = << <<"1">> >>
        /\ ValuesOf(spUrl, spLast.key) =
               IF spLast.value \in { <<>>, <<"a", "l", "l">> } THEN <<>> ELSE <<spLast.value>>

\* The page was set to 2 on a URL that held a search term, a category and a
\* foreign parameter, all of which are kept.
C22_Witness ==
    /\ spLast.key = "page" /\ spLast.value = <<"2">>
    /\ ValuesOf(spLast.before, "search") = << <<"a", "&">> >>
    /\ ValuesOf(spLast.before, "ref") = << <<"x">> >>
    /\ ValuesOf(spUrl, "search") = << <<"a", "&">> >>
    /\ ValuesOf(spUrl, "page") = << <<"2">> >>


----------------------------------------------------------------------------
(* Properties of the users list with its observer (specification           *)
(* SpecObserver).                                                           *)

\* The pages requested and not yet answered, cancelled ones included.
RequestedPages ==
    (IF fetchPage # 0 THEN { fetchPage } ELSE {})
        \cup { p \in DOMAIN abandoned : abandoned[p] > 0 }

Exhausted == Len(pages) = MAX_PAGE /\ ~hasNextPage /\ fetchPage = 0

\* C23: the users collection is finite at 10 pages - no fetch is ever issued
\* for a page above 10 and at most 10 pages (250 users) are ever loaded; and
\* when the filter stays empty, no attempt fails and the sentinel is in view
\* again and again, the list reaches the exhausted state with page 10 loaded.
C23_FiniteAtTenPages ==
    /\ [](/\ \A p \in RequestedPages : p \in 1..MAX_PAGE
          /\ Len(pages) <= MAX_PAGE
          /\ \A i \in 1..Len(pages) : pages[i] = FetchUsersPage(i)
          /\ Len(loadedUsers) <= MAX_PAGE * PAGE_SIZE)
    /\ ( /\ []<>sentinelVisible
         /\ [](emailQuery = <<>>)
         /\ [](failureCount = 0 /\ ~isError)
         => <>Exhausted )

\* The tenth page has been loaded after entries of the sentinel in view, with
\* no failure and no filter, and the list is exhausted.
C23_Witness ==
    /\ Exhausted
    /\ Len(loadedUsers) = MAX_PAGE * PAGE_SIZE
    /\ lastStep = [kind |-> "success", arg |-> MAX_PAGE]
    /\ emailQuery = <<>>
    /\ sentinelEntries = <<sentinelVisible>>


\* The filter has just been cleared with the sentinel in view, a next page
\* available and no fetch in flight.
FilterCleared ==
    /\ lastStep = [kind |-> "search", arg |-> <<>>]
    /\ emailQuery = <<>>
    /\ sentinelVisible
    /\ hasNextPage
    /\ fetchPage = 0

\* C29: auto-fetch resumes after a search - once the filter term is back to
\* empty with the sentinel in view, a next page available and no fetch in
\* flight, the next page is requested with no scroll event needed, unless a
\* new term is typed first.
C29_AutoFetchResumes == FilterCleared ~> (fetchPage # 0 \/ emailQuery # <<>>)

\* The filter has been cleared after two pages were loaded, and the observer
\* created by that render holds the entry of the sentinel in view.
C29_Witness ==
    /\ FilterCleared
    /\ Len(pages) = 2
    /\ sentinelEntries = <<TRUE>>


----------------------------------------------------------------------------
(* Properties of the page buttons of Products and Reviews (specification   *)
(* SpecUrl).                                                                *)

\* C24: goToPage(p) with p < 1 or p > totalPages is a no-op - the current
\* page, the URL and the scroll position are unchanged; with p in
\* 1..totalPages the current page becomes exactly p.
C24_GoToPageGuard ==
    [][ /\ comp \in { "Products", "Reviews" }
        /\ lastEvent'.kind = "goToPage"
        => LET p == lastEvent'.target[1]
           IN  IF p < 1 \/ p > TotalPages
               THEN /\ currentPage' = currentPage
                    /\ history' = history /\ hIndex' = hIndex
                    /\ windowScrollY' = windowScrollY
               ELSE currentPage' = p ]_vars

\* goToPage was called with the page after the last one, on page 2 of
\* Products with the window scrolled down, and nothing moved.
C24_Witness ==
    /\ comp = "Products"
    /\ lastEvent.kind = "goToPage" /\ lastEvent.target = <<TotalPages + 1>>
    /\ currentPage = TotalPages
    /\ windowScrollY = 1
    /\ lastEvent.pushes = 0 /\ lastEvent.replaces = 0

\* C25: in every reachable state of Reviews and Products - the state
\* initialised from the page parameter of the URL, and the states reached by
\* back/forward navigation or a search change - the current page is within
\* 1..totalPages.
C25_CurrentPageWithinRange ==
    comp \in { "Products", "Reviews" } => currentPage \in 1..TotalPages


----------------------------------------------------------------------------
(* Properties of the page number lists (specification SpecPager).           *)

PageNumbersOf(list) == SelectSeq(list, LAMBDA x : x # Dots)

StrictlyIncreasing(q) == \A i \in 1..(Len(q) - 1) : q[i] < q[i + 1]

\* A "..." stands between two page numbers that are not consecutive.
DotsOnlyInGaps(list) ==
    \A i \in 1..Len(list) :
        list[i] = Dots =>
            /\ 1 < i /\ i < Len(list)
            /\ list[i - 1] # Dots /\ list[i + 1] # Dots
            /\ list[i + 1] - list[i - 1] > 1

VisiblePagesWellFormed(list, totalPages, page) ==
    LET nums == PageNumbersOf(list)
    IN  /\ StrictlyIncreasing(nums)
        /\ nums # <<>>
        /\ nums[1] = 1
        /\ nums[Len(nums)] = totalPages
        /\ \A q \in 1..totalPages :
              (q - page \in (0 - 2)..2) => (\E i \in 1..Len(nums) : nums[i] = q)
        /\ DotsOnlyInGaps(list)

\* C26: for every totalPages >= 1 and every currentPage in 1..totalPages,
\* getVisiblePages returns a list whose page numbers are strictly increasing
\* with no duplicates, start with 1, end with totalPages, include currentPage
\* and every page within 2 of it, with "..." only between two page numbers
\* that are not consecutive.
C26_VisiblePagesWellFormed ==
    \A c \in PagerComponents :
        LET totalPages == TotalPagesOf(c, pgData, pgTotal)
        IN  (totalPages >= 1 /\ pgCurrent \in 1..totalPages)
                => VisiblePagesWellFormed(pgVisible[c], totalPages, pgCurrent)

\* What does hold: the list of Reviews once the data is there, and the list
\* of PaginationPage for more than one page.
ReviewsListWellFormed ==
    (pgData /\ pgCurrent \in 1..pgTotal)
        => VisiblePagesWellFormed(pgVisible["Reviews"], pgTotal, pgCurrent)

PaginationListWellFormed ==
    (pgTotal > 1 /\ pgCurrent \in 1..pgTotal)
        => VisiblePagesWellFormed(pgVisible["PaginationPage"], pgTotal, pgCurrent)

\* C27: for every totalPages >= 1 and every page in 1..totalPages,
\* getPageNumbers returns exactly min(5, totalPages) consecutive ascending
\* page numbers, all within 1..totalPages, that include the current page.
C27_PageNumbersWindow ==
    LET totalPages == TotalPagesOf("TestProductsPage", pgData, pgTotal)
    IN  (totalPages >= 1 /\ pgCurrent \in 1..totalPages)
            => /\ Len(pgNumbers) = Min(5, totalPages)
               /\ \A i \in 1..(Len(pgNumbers) - 1) : pgNumbers[i + 1] = pgNumbers[i] + 1
               /\ \A i \in 1..Len(pgNumbers) : pgNumbers[i] \in 1..totalPages
               /\ \E i \in 1..Len(pgNumbers) : pgNumbers[i] = pgCurrent

\* The last page of more than five: the window was moved back to hold five.
C27_Witness ==
    /\ pgData /\ pgTotal = MaxPagerTotal /\ pgCurrent = pgTotal
    /\ pgNumbers = Upto(pgTotal - 4, pgTotal)


----------------------------------------------------------------------------
(* Properties of the page query of TestProductsPage (specification SpecUrl). *)

\* C28: in TestProductsPage, when the debounced term changes while the page
\* of the URL is p > 1, no request is issued for page p of the new term: the
\* first request issued for the new term is for page 1.
C28_NoRequestForOldPage ==
    [][ /\ comp = "TestProductsPage"
        /\ lastEvent'.kind = "timeout"
        /\ debouncedSearch' # debouncedSearch
        /\ typed.has /\ typed.value = debouncedSearch'
        /\ InitialPage(Location) > 1
        => LET asked == SelectSeq(lastEvent'.requests,
                                  LAMBDA k : k.term = debouncedSearch')
           IN  /\ \A i \in 1..Len(asked) : asked[i].page # InitialPage(Location)
               /\ asked # <<>> /\ asked[1].page = 1 ]_vars

====
